---- MODULE Spec2Model ----
(***************************************************************************)
(* Health-Triage: the Session Controller (src/App.tsx), the Capture        *)
(* Adapter (src/components/Recorder.tsx) and the Analysis Client           *)
(* (src/services/geminiService.ts) as one state machine.                   *)
(*                                                                         *)
(* The program runs on one event loop.  Every action below is one task of  *)
(* that loop: a UI event handler up to its first await, or the             *)
(* continuation of an await.  React commits the state updates of a task    *)
(* before the next task runs, so an event handler always sees the state of *)
(* the latest render, while a continuation keeps the values its closure    *)
(* captured when the handler was created.                                  *)
(*                                                                         *)
(* Optional values (T | null) are sets with at most one element.           *)
(***************************************************************************)
EXTENDS Integers, Sequences, FiniteSets, TLC

\* ------------------------------------------------------------------ bounds
\* The user performs at most MaxEvents inputs (clicks, key strokes, picked
\* files); the responses of the platform and of the remote endpoint to them
\* are not limited.
MaxEvents == 5

\* The formatter is checked on histories of at most MaxHistory messages.
MaxHistory == 2

\* The caller of the formatter makes at most MaxCalls calls.
MaxCalls == 2

\* The clock is followed up to the value MaxClock; reads that come later give
\* MaxClock again.
MaxClock == 1

\* ------------------------------------------------------- input domains
Texts == {"", " ", "hi"}
PainButtons == {7}
ReplyTexts == {"", "ok"}
ProviderErrors == {"quota", "network"}
CaptureKinds == {"audio", "video"}
PhotoMimeTypes == {"image/png"}

\* ---------------------------------------------------------- option type
Null == {}
Some(x) == {x}
The(o) == CHOOSE x \in o : TRUE

Last(s) == s[Len(s)]

\* String.prototype.trim on the model's texts (blank = the space character)
RECURSIVE TrimStart(_)
TrimStart(s) ==
  IF Len(s) > 0 /\ SubSeq(s, 1, 1) = " " THEN TrimStart(SubSeq(s, 2, Len(s))) ELSE s

RECURSIVE TrimEnd(_)
TrimEnd(s) ==
  IF Len(s) > 0 /\ SubSeq(s, Len(s), Len(s)) = " "
  THEN TrimEnd(SubSeq(s, 1, Len(s) - 1)) ELSE s

Trim(s) == TrimEnd(TrimStart(s))

\* enum AppState
AppState == {"IDLE", "RECORDING", "ANALYZING", "RESULT", "ERROR"}

GENERIC_FAILURE == "I couldn't reach the service. Please check your connection and try again."
CONNECT_FALLBACK == "I'm having trouble connecting right now. Please check your connection and try again."
REPLY_FALLBACK == "I'm having trouble understanding right now. Please try again."

\* ------------------------------------------------------------------ state
VARIABLES
  \* App (Session Controller)
  inputText, attachments, painLevel, messages, status, errorMessage, location,
  speaking,      \* window.speechSynthesis is playing an utterance
  \* remote calls
  pending,       \* unresolved analyzeHealthCondition calls
  nSent,         \* number of generateContent requests issued so far
  thrown,        \* analyzeHealthCondition calls that threw before their request
                 \* and whose caller has not resumed yet
  clientBuilds,  \* new GoogleGenAI({ apiKey: process.env.API_KEY }) returns a client
  \* Recorder (Capture Adapter), the mounted instance
  inst,          \* serial number of the mounted (or last mounted) Recorder instance
  mode, isRecording, stream, mediaRecorderRef,
  chunksRef,     \* chunksRef.current of every Recorder instance created so far
  \* platform
  tracks,        \* readyState of the tracks of every stream getUserMedia granted
  acquiring,     \* unresolved getUserMedia calls
  recorders,     \* every MediaRecorder created so far, with its handlers' closure
  encodingPhotos,\* unresolved blobToBase64 calls of the file input
  now,           \* the value the last read of Date.now() gave
  \* observation
  nEvents,       \* number of user inputs so far
  nResets,       \* number of resets so far
  cancelled,     \* streams whose capture was ended by the Cancel button
  lastOp         \* the task that ran last

appVars == <<inputText, attachments, painLevel, messages, status, errorMessage,
             location, speaking>>
netVars == <<pending, nSent, thrown, clientBuilds>>
recVars == <<inst, mode, isRecording, stream, mediaRecorderRef, chunksRef>>
platVars == <<tracks, acquiring, recorders, encodingPhotos>>
obsVars == <<nResets, cancelled>>
vars == <<appVars, netVars, recVars, platVars, now, obsVars, nEvents, lastOp>>

Op(name, followUp, accepted, rid) ==
  [op |-> name, followUp |-> followUp, accepted |-> accepted, rid |-> rid]

\* A task starts when no continuation is queued as a microtask: the caller of
\* an analyzeHealthCondition call that threw resumes before any other task.
TaskStarts == thrown = 0

\* A task started by the user, and a task started by the platform.
UserEvent == TaskStarts /\ nEvents < MaxEvents /\ nEvents' = nEvents + 1
SystemEvent == TaskStarts /\ UNCHANGED nEvents

\* Date.now(): a read gives the value the previous read gave or any later one
\* (up to MaxClock); since is the previous read.
ClockReads(since) == since..MaxClock

\* The last read of a task is the previous read of the next one.
ClockAdvances(lastRead) == now' = lastRead

\* The Recorder is rendered only inside the intake form.
RecorderMounted(msgs) == Len(msgs) = 0

\* ------------------------------------------------- Analysis Client (pure)
\* blobToBase64 (utils/mediaUtils, not part of the sources at hand): an
\* injective encoding of the blob's content.
blobToBase64(blob) == <<"base64", blob>>

\* ----------------------------------------- Analysis Client, the formatter
\* A field the message leaves out (text, attachments, painLevel are optional)
\* reads as "", <<>> and Null: the code tests each of them with a test that
\* does not tell an absent value from an empty or null one.
DEFAULT_PROMPT == "Please analyze this."

\* `\n\n[System Note: User indicates Pain Level: ${msg.painLevel}/10]`
PainAnnotation(level) ==
  "\n\n[System Note: User indicates Pain Level: " \o ToString(level) \o "/10]"

\* (variant: only the first attachment is sent)
InlineDataPartsFirstOnly(atts) ==
  [i \in 1..(IF Len(atts) > 0 THEN 1 ELSE 0) |->
     [inlineData |-> [mimeType |-> atts[i].mimeType, data |-> atts[i].data]]]

\* msg.attachments.forEach(att => parts.push({ inlineData: { mimeType, data } }))
InlineDataParts(atts) ==
  [i \in 1..Len(atts) |->
     [inlineData |-> [mimeType |-> atts[i].mimeType, data |-> atts[i].data]]]

\* (variant: the pain level is tested for truthiness, if (msg.painLevel))
PainPresentTruthy(level) == level # Null /\ The(level) # 0

\* msg.painLevel !== undefined && msg.painLevel !== null
PainPresent(level) == level # Null

\* let textContent = msg.text || ""; if (pain present) textContent += annotation
TextWithPain(msg) ==
  IF PainPresent(msg.painLevel)
  THEN msg.text \o PainAnnotation(The(msg.painLevel))
  ELSE msg.text

\* (variant: the default prompt is never substituted)
TextContentWithoutDefault(msg) == TextWithPain(msg)

\* if (!textContent && (!msg.attachments || msg.attachments.length === 0))
\*   textContent = "Please analyze this."
TextContent(msg) ==
  IF TextWithPain(msg) = "" /\ Len(msg.attachments) = 0
  THEN DEFAULT_PROMPT
  ELSE TextWithPain(msg)

\* if (textContent) parts.push({ text: textContent })
TextParts(msg) ==
  IF TextContent(msg) # "" THEN <<[text |-> TextContent(msg)]>> ELSE <<>>

\* (variant: every turn is sent with the role user)
FormatMessageAsUser(msg) ==
  [role |-> "user",
   parts |-> IF msg.role = "user"
             THEN InlineDataParts(msg.attachments) \o TextParts(msg)
             ELSE <<[text |-> msg.text]>>]

\* the body of the callback of history.map: one turn for one message
FormatMessage(msg) ==
  [role |-> msg.role,
   parts |-> IF msg.role = "user"
             THEN InlineDataParts(msg.attachments) \o TextParts(msg)
             ELSE <<[text |-> msg.text]>>]

\* (variant: only the last message is sent with its attachments)
FormatHistoryLastMediaOnly(history) ==
  [i \in 1..Len(history) |->
     IF i = Len(history) \/ history[i].role # "user"
     THEN FormatMessage(history[i])
     ELSE [role |-> history[i].role, parts |-> TextParts(history[i])]]

\* const formattedHistory = history.map((msg, index) => ...)
FormatHistory(history) == [i \in 1..Len(history) |-> FormatMessage(history[i])]

\* const SYSTEM_INSTRUCTION = `...`: the fixed instruction text, named by its
\* first heading and first sentence.
SYSTEM_INSTRUCTION ==
  "### SYSTEM ROLE\nYou are the \"Personal Health Triage Companion.\""

MODEL_NAME == "gemini-2.5-flash"

\* temperature: 0.4, in tenths
TEMPERATURE_TENTHS == 4

\* (variant: the location hint is passed on, as the tool configuration of a
\* maps lookup)
RequestConfigWithLocation(loc) ==
  [systemInstruction |-> SYSTEM_INSTRUCTION,
   temperatureTenths |-> TEMPERATURE_TENTHS,
   toolConfig |-> [retrievalConfig |-> [latLng |-> loc]]]

\* const config = { systemInstruction: SYSTEM_INSTRUCTION, temperature: 0.4 };
\* the location argument of analyzeHealthCondition is not used.
RequestConfig(loc) ==
  [systemInstruction |-> SYSTEM_INSTRUCTION,
   temperatureTenths |-> TEMPERATURE_TENTHS]

\* The call of ai.models.generateContent({ model, contents, config }): model,
\* contents and config are what is sent; rid, history, location and epoch
\* record the call it was sent by and the session the call was made in.
GenerateContentRequest(history, loc) ==
  [rid |-> nSent + 1,
   history |-> history,
   location |-> loc,
   epoch |-> nResets,
   model |-> MODEL_NAME,
   contents |-> FormatHistory(history),
   config |-> RequestConfig(loc)]

\* ----------------------------------------------------------- Recorder
\* cleanupStream's effect on the device: stops the tracks of the stream the
\* closure captured.
StopTracks(tr, closureStream) ==
  IF closureStream # Null
  THEN [tr EXCEPT ![The(closureStream)] = "ended"]
  ELSE tr

\* The cleanup of useEffect(..., []) is the closure of the first render, in
\* which stream is null.
EffectCleanupStream == Null

\* The Recorder follows the history: it is unmounted when the history stops
\* being empty and a fresh instance is mounted when it becomes empty again.
\* State updates of an unmounted instance are dropped.
RecorderUnmount ==
  /\ tracks' = StopTracks(tracks, EffectCleanupStream)
  /\ mode' = Null
  /\ isRecording' = FALSE
  /\ stream' = Null
  /\ mediaRecorderRef' = Null
  /\ UNCHANGED <<inst, chunksRef>>

RecorderMount ==
  /\ inst' = inst + 1
  /\ chunksRef' = Append(chunksRef, <<>>)
  /\ mode' = Null
  /\ isRecording' = FALSE
  /\ stream' = Null
  /\ mediaRecorderRef' = Null
  /\ UNCHANGED tracks

RecorderFollows ==
  IF RecorderMounted(messages) /\ ~RecorderMounted(messages')
  THEN RecorderUnmount
  ELSE IF ~RecorderMounted(messages) /\ RecorderMounted(messages')
       THEN RecorderMount
       ELSE UNCHANGED <<recVars, tracks>>

\* ------------------------------------------------------------------- App
Init ==
  /\ inputText = ""
  /\ attachments = <<>>
  /\ painLevel = Null
  /\ messages = <<>>
  /\ status = "IDLE"
  /\ errorMessage = Null
  /\ location = Null
  /\ speaking = FALSE
  /\ pending = {}
  /\ nSent = 0
  /\ thrown = 0
  /\ clientBuilds \in BOOLEAN
  /\ inst = 1
  /\ mode = Null
  /\ isRecording = FALSE
  /\ stream = Null
  /\ mediaRecorderRef = Null
  /\ chunksRef = << <<>> >>
  /\ tracks = <<>>
  /\ acquiring = <<>>
  /\ recorders = <<>>
  /\ encodingPhotos = 0
  /\ now = 0
  /\ nEvents = 0
  /\ nResets = 0
  /\ cancelled = {}
  /\ lastOp = Op("init", FALSE, FALSE, 0)

\* (variant: reset does not call window.speechSynthesis.cancel())
resetWithoutSpeechCancel ==
  /\ inputText' = ""
  /\ attachments' = <<>>
  /\ painLevel' = Null
  /\ messages' = <<>>
  /\ status' = "IDLE"
  /\ errorMessage' = Null
  /\ nResets' = nResets + 1
  /\ RecorderFollows
  /\ lastOp' = Op("reset", FALSE, TRUE, 0)
  /\ UserEvent
  /\ UNCHANGED <<location, speaking, netVars, acquiring, recorders, encodingPhotos,
                 now, cancelled>>

\* const reset = () => { ... }
reset ==
  /\ inputText' = ""
  /\ attachments' = <<>>
  /\ painLevel' = Null
  /\ messages' = <<>>
  /\ status' = "IDLE"
  /\ errorMessage' = Null
  /\ speaking' = FALSE
  /\ nResets' = nResets + 1
  /\ RecorderFollows
  /\ lastOp' = Op("reset", FALSE, TRUE, 0)
  /\ UserEvent
  /\ UNCHANGED <<location, netVars, acquiring, recorders, encodingPhotos, now, cancelled>>

\* (variant: every submit carries the pending attachments and the pain level)
NewUserMessageCarryingIntake(isFollowUp, idNow, tsNow) ==
  [id |-> idNow,
   role |-> "user",
   text |-> inputText,
   attachments |-> attachments,
   painLevel |-> painLevel,
   timestamp |-> tsNow]

\* (variant: the selected pain level is not put into the message)
NewUserMessageWithoutPain(isFollowUp, idNow, tsNow) ==
  [id |-> idNow,
   role |-> "user",
   text |-> inputText,
   attachments |-> IF isFollowUp THEN <<>> ELSE attachments,
   painLevel |-> Null,
   timestamp |-> tsNow]

\* The user message handleSubmit builds.
NewUserMessage(isFollowUp, idNow, tsNow) ==
  [id |-> idNow,
   role |-> "user",
   text |-> inputText,
   attachments |-> IF isFollowUp THEN <<>> ELSE attachments,
   painLevel |-> IF isFollowUp THEN Null ELSE painLevel,
   timestamp |-> tsNow]

\* (variant: the new message is put in front of the history)
NewHistoryPrepending(isFollowUp, idNow, tsNow) == <<NewUserMessage(isFollowUp, idNow, tsNow)>> \o messages

\* const newHistory = [...messages, newMessage]
NewHistory(isFollowUp, idNow, tsNow) == Append(messages, NewUserMessage(isFollowUp, idNow, tsNow))

\* (variant: the call is given the messages state of the render instead of newHistory)
AnalyzedStaleHistory(isFollowUp, idNow, tsNow) == messages

\* The history handleSubmit passes to analyzeHealthCondition.
AnalyzedHistory(isFollowUp, idNow, tsNow) == NewHistory(isFollowUp, idNow, tsNow)

\* setInputText(''); if (!isFollowUp) setAttachments([])
InputTextAfterSubmit == ""

\* (variant: the pending attachments are never cleared)
AttachmentsKeptAfterSubmit(isFollowUp) == attachments

AttachmentsAfterSubmit(isFollowUp) == IF isFollowUp THEN attachments ELSE <<>>

\* (variant: analyzeHealthCondition repeats the call once)
GenerateContentCallsWithRetry == 1 + 1

\* analyzeHealthCondition calls ai.models.generateContent once; neither it nor
\* handleSubmit repeats the call.
GenerateContentCalls == 1

\* analyzeHealthCondition(history, location) up to its await or its throw.
\* new GoogleGenAI(...) is the first statement of the try block: when it throws,
\* the history is not formatted and no request is issued, and the catch block
\* rethrows; process.env.API_KEY is fixed by the build, so the constructor fares
\* the same at every call of a run.
AnalysisCall(history, loc) ==
  IF clientBuilds
  THEN /\ pending' = pending \cup {GenerateContentRequest(history, loc)}
       /\ nSent' = nSent + GenerateContentCalls
       /\ UNCHANGED <<thrown, clientBuilds>>
  ELSE /\ thrown' = thrown + 1
       /\ UNCHANGED <<pending, nSent, clientBuilds>>

\* The rid of the request a call issues, 0 when it issues none.
IssuedRid == IF clientBuilds THEN nSent + 1 ELSE 0

\* (variant: the second early return is missing)
SubmitRejectedFirstTurnOnly(isFollowUp) ==
  inputText = "" /\ Len(attachments) = 0 /\ ~isFollowUp

\* the two early returns of handleSubmit
SubmitRejected(isFollowUp) ==
  \/ (inputText = "" /\ Len(attachments) = 0 /\ ~isFollowUp)
  \/ (isFollowUp /\ inputText = "")

\* const handleSubmit = async (isFollowUp = false) => { ... up to the await
handleSubmit(isFollowUp) ==
  IF SubmitRejected(isFollowUp)
  THEN /\ lastOp' = Op("submit", isFollowUp, FALSE, 0)
       /\ UserEvent
       /\ UNCHANGED <<appVars, netVars, recVars, platVars, now, obsVars>>
  ELSE \E idNow \in ClockReads(now) : \E tsNow \in ClockReads(idNow) :
       /\ messages' = NewHistory(isFollowUp, idNow, tsNow)
       /\ inputText' = InputTextAfterSubmit
       /\ attachments' = AttachmentsAfterSubmit(isFollowUp)
       /\ status' = "ANALYZING"
       /\ errorMessage' = Null
       /\ AnalysisCall(AnalyzedHistory(isFollowUp, idNow, tsNow), location)
       /\ RecorderFollows
       /\ ClockAdvances(tsNow)
       /\ lastOp' = Op("submit", isFollowUp, TRUE, IssuedRid)
       /\ UserEvent
       /\ UNCHANGED <<painLevel, location, speaking, acquiring, recorders,
                      encodingPhotos, obsVars>>

\* analyzeHealthCondition's result for a provider reply.
AnalysisResult(replyText) ==
  [text |-> IF replyText # "" THEN replyText ELSE REPLY_FALLBACK,
   groundingChunks |-> <<>>]

\* (variant: the provider's error is rethrown as it is)
AnalysisErrorPassedThrough(providerError) == [message |-> providerError]

\* analyzeHealthCondition's catch block: the error it throws.
AnalysisError(providerError) == [message |-> GENERIC_FAILURE]

\* handleSubmit after the await, try branch.
RemoteSuccess(r, replyText) ==
  /\ r \in pending
  /\ pending' = pending \ {r}
  /\ \E idNow \in ClockReads(now) : \E tsNow \in ClockReads(idNow) :
       /\ messages' = Append(messages,
            [id |-> idNow + 1,
             role |-> "model",
             text |-> AnalysisResult(replyText).text,
             attachments |-> <<>>,
             painLevel |-> Null,
             timestamp |-> tsNow])
       /\ ClockAdvances(tsNow)
  /\ status' = "RESULT"
  /\ RecorderFollows
  /\ lastOp' = Op("success", FALSE, TRUE, r.rid)
  /\ SystemEvent
  /\ UNCHANGED <<inputText, attachments, painLevel, errorMessage, location, speaking,
                 nSent, thrown, clientBuilds, acquiring, recorders, encodingPhotos,
                 obsVars>>

\* (variant: the catch branch reports the error but leaves the status alone)
RemoteFailureKeepsStatus(r, providerError) ==
  /\ r \in pending
  /\ pending' = pending \ {r}
  /\ errorMessage' = Some(IF AnalysisError(providerError).message # ""
                          THEN AnalysisError(providerError).message
                          ELSE CONNECT_FALLBACK)
  /\ lastOp' = Op("failure", FALSE, TRUE, r.rid)
  /\ SystemEvent
  /\ UNCHANGED <<inputText, attachments, painLevel, messages, status, location,
                 speaking, nSent, thrown, clientBuilds, recVars, platVars, now, obsVars>>

\* handleSubmit after the await, catch branch.
RemoteFailure(r, providerError) ==
  /\ r \in pending
  /\ pending' = pending \ {r}
  /\ errorMessage' = Some(IF AnalysisError(providerError).message # ""
                          THEN AnalysisError(providerError).message
                          ELSE CONNECT_FALLBACK)
  /\ status' = "ERROR"
  /\ lastOp' = Op("failure", FALSE, TRUE, r.rid)
  /\ SystemEvent
  /\ UNCHANGED <<inputText, attachments, painLevel, messages, location, speaking,
                 nSent, thrown, clientBuilds, recVars, platVars, now, obsVars>>

\* The errors new GoogleGenAI(...) throws.
ConstructorErrors == {"An API Key must be set."}

\* handleSubmit after the await, catch branch, for a call that threw before its
\* request: the continuation runs as a microtask of the submitting task.
CallThrew(constructorError) ==
  /\ thrown > 0
  /\ thrown' = thrown - 1
  /\ errorMessage' = Some(IF AnalysisError(constructorError).message # ""
                          THEN AnalysisError(constructorError).message
                          ELSE CONNECT_FALLBACK)
  /\ status' = "ERROR"
  /\ lastOp' = Op("failure", FALSE, TRUE, 0)
  /\ UNCHANGED nEvents
  /\ UNCHANGED <<inputText, attachments, painLevel, messages, location, speaking,
                 pending, nSent, clientBuilds, recVars, platVars, now, obsVars>>

\* ------------------------------------------------------- App, UI events
\* <textarea disabled={status === AppState.ANALYZING}>: a disabled control
\* receives no input and no key events
\* (variant: the disabled attribute is missing)
TextAreaNeverDisabled == FALSE

TextAreaDisabled == status = "ANALYZING"

\* <textarea onChange>
TypeText(t) ==
  /\ ~TextAreaDisabled
  /\ t # inputText
  /\ inputText' = t
  /\ lastOp' = Op("type", FALSE, TRUE, 0)
  /\ UserEvent
  /\ UNCHANGED <<attachments, painLevel, messages, status, errorMessage, location,
                 speaking, netVars, recVars, platVars, now, obsVars>>

\* PainScale button, rendered in the intake form only
SelectPain(level) ==
  /\ Len(messages) = 0
  /\ painLevel' = IF Some(level) = painLevel THEN Null ELSE Some(level)
  /\ lastOp' = Op("pain", FALSE, TRUE, 0)
  /\ UserEvent
  /\ UNCHANGED <<inputText, attachments, messages, status, errorMessage, location,
                 speaking, netVars, recVars, platVars, now, obsVars>>

\* prev.filter(a => a.id !== id)
RECURSIVE FilterOutId(_, _)
FilterOutId(atts, id) ==
  IF atts = <<>> THEN <<>>
  ELSE IF Head(atts).id = id THEN FilterOutId(Tail(atts), id)
       ELSE <<Head(atts)>> \o FilterOutId(Tail(atts), id)

\* const removeAttachment = (id) => ..., from the preview grid of the intake form
removeAttachment(i) ==
  /\ Len(messages) = 0
  /\ i \in 1..Len(attachments)
  /\ attachments' = FilterOutId(attachments, attachments[i].id)
  /\ lastOp' = Op("remove", FALSE, TRUE, 0)
  /\ UserEvent
  /\ UNCHANGED <<inputText, painLevel, messages, status, errorMessage, location,
                 speaking, netVars, recVars, platVars, now, obsVars>>

\* "Start Triage" button.  The capture overlay of the Recorder covers it but
\* does not disable it: it stays reachable from the keyboard.
ClickIntake ==
  /\ Len(messages) = 0
  /\ ~(status = "ANALYZING" \/ (Len(attachments) = 0 /\ inputText = ""))
  /\ handleSubmit(FALSE)

\* follow-up send button
ClickSend ==
  /\ Len(messages) > 0
  /\ ~(Trim(inputText) = "" \/ status = "ANALYZING")
  /\ handleSubmit(TRUE)

\* <textarea onKeyDown>: Enter without Shift
PressEnter ==
  /\ ~TextAreaDisabled
  /\ Len(messages) > 0
  /\ handleSubmit(TRUE)

\* "Reset Session" button
ClickReset ==
  /\ Len(messages) > 0
  /\ reset

\* const readAloud = (text) => ..., the Listen button of a model message
readAloud(i) ==
  /\ i \in 1..Len(messages)
  /\ messages[i].role = "model"
  /\ messages[i].text # ""
  /\ speaking' = TRUE
  /\ lastOp' = Op("listen", FALSE, TRUE, 0)
  /\ UserEvent
  /\ UNCHANGED <<inputText, attachments, painLevel, messages, status, errorMessage,
                 location, netVars, recVars, platVars, now, obsVars>>

\* the utterance ends by itself
SpeechEnds ==
  /\ speaking
  /\ speaking' = FALSE
  /\ lastOp' = Op("spoken", FALSE, TRUE, 0)
  /\ SystemEvent
  /\ UNCHANGED <<inputText, attachments, painLevel, messages, status, errorMessage,
                 location, netVars, recVars, platVars, now, obsVars>>

\* getCurrentPosition's success callback (its failure callback only logs)
Coordinates == {[lat |-> 6, lng |-> 79]}

GeolocationResolved(c) ==
  /\ location = Null
  /\ location' = Some(c)
  /\ lastOp' = Op("geo", FALSE, TRUE, 0)
  /\ SystemEvent
  /\ UNCHANGED <<inputText, attachments, painLevel, messages, status, errorMessage,
                 speaking, netVars, recVars, platVars, now, obsVars>>

\* const handleCapture = (attachment) => setAttachments(prev => [...prev, attachment])
handleCapture(attachment) == attachments' = Append(attachments, attachment)

\* ------------------------------------------------- Recorder, UI events
RecorderShown == RecorderMounted(messages)
RecorderDisabled == status = "ANALYZING"

\* Voice / Video card: startStream(type) up to the await
startStream(type) ==
  /\ RecorderShown /\ mode = Null /\ ~RecorderDisabled
  /\ acquiring' = Append(acquiring, [inst |-> inst, type |-> type])
  /\ lastOp' = Op("startStream", FALSE, TRUE, 0)
  /\ UserEvent
  /\ UNCHANGED <<appVars, netVars, recVars, tracks, recorders, encodingPhotos, now, obsVars>>

RemoveAt(s, i) == SubSeq(s, 1, i - 1) \o SubSeq(s, i + 1, Len(s))

\* startStream after the await: getUserMedia resolved with a new stream
UserMediaGranted(i) ==
  /\ i \in 1..Len(acquiring)
  /\ acquiring' = RemoveAt(acquiring, i)
  /\ tracks' = Append(tracks, "live")
  /\ IF acquiring[i].inst = inst /\ RecorderShown
     THEN /\ stream' = Some(Len(tracks) + 1)
          /\ mode' = Some(acquiring[i].type)
     ELSE UNCHANGED <<stream, mode>>
  /\ lastOp' = Op("granted", FALSE, TRUE, 0)
  /\ SystemEvent
  /\ UNCHANGED <<appVars, netVars, inst, isRecording, mediaRecorderRef, chunksRef,
                 recorders, encodingPhotos, now, obsVars>>

\* startStream's catch block: getUserMedia rejected, alert(...)
UserMediaDenied(i) ==
  /\ i \in 1..Len(acquiring)
  /\ acquiring' = RemoveAt(acquiring, i)
  /\ lastOp' = Op("denied", FALSE, FALSE, 0)
  /\ SystemEvent
  /\ UNCHANGED <<appVars, netVars, recVars, tracks, recorders, encodingPhotos, now, obsVars>>

\* Cancel button: cleanupStream of the current render
ClickCancel ==
  /\ RecorderShown /\ mode # Null
  /\ tracks' = StopTracks(tracks, stream)
  /\ stream' = Null
  /\ mode' = Null
  /\ isRecording' = FALSE
  /\ cancelled' = cancelled \cup stream
  /\ lastOp' = Op("cancel", FALSE, TRUE, 0)
  /\ UserEvent
  /\ UNCHANGED <<appVars, netVars, inst, mediaRecorderRef, chunksRef, acquiring,
                 recorders, encodingPhotos, now, nResets>>

\* const mimeType = mode === 'video' ? 'video/webm' : 'audio/webm'
RecordingMimeType(m) == IF m = "video" THEN "video/webm" ELSE "audio/webm"

\* start button: const startRecording = () => { ... }
startRecording ==
  /\ RecorderShown /\ mode # Null /\ ~isRecording
  /\ IF stream = Null
     THEN UNCHANGED <<recVars, recorders>>
     ELSE /\ chunksRef' = [chunksRef EXCEPT ![inst] = <<>>]
          /\ recorders' = Append(recorders,
               [inst |-> inst, stream |-> The(stream), mode |-> The(mode),
                state |-> "recording", stopRequested |-> FALSE, blob |-> <<>>])
          /\ mediaRecorderRef' = Some(Len(recorders) + 1)
          /\ isRecording' = TRUE
          /\ UNCHANGED <<inst, mode, stream>>
  /\ lastOp' = Op("startRecording", FALSE, stream # Null, 0)
  /\ UserEvent
  /\ UNCHANGED <<appVars, netVars, tracks, acquiring, encodingPhotos, now,
                 obsVars>>

\* stop button: const stopRecording = () => { ... }
stopRecording ==
  /\ RecorderShown /\ mode # Null /\ isRecording
  /\ IF mediaRecorderRef # Null /\ isRecording
     THEN /\ recorders' =
               IF recorders[The(mediaRecorderRef)].state = "recording"
               THEN [recorders EXCEPT ![The(mediaRecorderRef)].state = "stopping",
                                      ![The(mediaRecorderRef)].stopRequested = TRUE]
               ELSE recorders
          /\ isRecording' = FALSE
     ELSE UNCHANGED <<recorders, isRecording>>
  /\ lastOp' = Op("stopRecording", FALSE, TRUE, 0)
  /\ UserEvent
  /\ UNCHANGED <<appVars, netVars, inst, mode, stream, mediaRecorderRef, chunksRef,
                 tracks, acquiring, encodingPhotos, now, obsVars>>

\* The MediaRecorder stops (stop() was called, or all tracks of its stream
\* ended): it delivers the data it gathered (ondataavailable), then onstop
\* runs up to its await.
RecorderStops(i, size) ==
  /\ i \in 1..Len(recorders)
  /\ \/ recorders[i].state = "stopping"
     \/ recorders[i].state = "recording" /\ tracks[recorders[i].stream] = "ended"
  /\ chunksRef' = IF size > 0
                  THEN [chunksRef EXCEPT ![recorders[i].inst] = Append(@, i)]
                  ELSE chunksRef
  /\ recorders' = [recorders EXCEPT ![i].state = "encoding",
                                    ![i].blob = chunksRef'[recorders[i].inst]]
  /\ lastOp' = Op("onstop", FALSE, TRUE, i)
  /\ SystemEvent
  /\ UNCHANGED <<appVars, netVars, inst, mode, isRecording, stream, mediaRecorderRef,
                 tracks, acquiring, encodingPhotos, now, obsVars>>

\* recorder.onstop after the await: onCapture(...), cleanupStream()
RecordingEncoded(i) ==
  /\ i \in 1..Len(recorders)
  /\ recorders[i].state = "encoding"
  /\ recorders' = [recorders EXCEPT ![i].state = "done"]
  /\ \E idNow \in ClockReads(now) :
       /\ handleCapture([id |-> idNow,
                         type |-> recorders[i].mode,
                         mimeType |-> RecordingMimeType(recorders[i].mode),
                         data |-> blobToBase64(recorders[i].blob)])
       /\ ClockAdvances(idNow)
  /\ tracks' = StopTracks(tracks, Some(recorders[i].stream))
  /\ IF recorders[i].inst = inst /\ RecorderShown
     THEN /\ stream' = Null
          /\ mode' = Null
          /\ isRecording' = FALSE
     ELSE UNCHANGED <<stream, mode, isRecording>>
  /\ lastOp' = Op("onCapture", FALSE, TRUE, i)
  /\ SystemEvent
  /\ UNCHANGED <<inputText, painLevel, messages, status, errorMessage, location,
                 speaking, netVars, inst, mediaRecorderRef, chunksRef, acquiring,
                 encodingPhotos, obsVars>>

\* file input onChange, up to the await
SelectFile ==
  /\ RecorderShown /\ mode = Null /\ ~RecorderDisabled
  /\ encodingPhotos' = encodingPhotos + 1
  /\ lastOp' = Op("selectFile", FALSE, TRUE, 0)
  /\ UserEvent
  /\ UNCHANGED <<appVars, netVars, recVars, tracks, acquiring, recorders, now, obsVars>>

\* file input onChange after the await: onCapture(...)
PhotoEncoded(mime) ==
  /\ encodingPhotos > 0
  /\ encodingPhotos' = encodingPhotos - 1
  /\ \E idNow \in ClockReads(now) :
       /\ handleCapture([id |-> idNow, type |-> "image", mimeType |-> mime,
                         data |-> blobToBase64(<<0>>)])
       /\ ClockAdvances(idNow)
  /\ lastOp' = Op("onCapture", FALSE, TRUE, 0)
  /\ SystemEvent
  /\ UNCHANGED <<inputText, painLevel, messages, status, errorMessage, location,
                 speaking, netVars, recVars, tracks, acquiring, recorders,
                 obsVars>>

\* ------------------------------------------------------- specification
Next ==
  \/ \E t \in Texts : TypeText(t)
  \/ \E l \in PainButtons : SelectPain(l)
  \/ \E i \in 1..Len(attachments) : removeAttachment(i)
  \/ ClickIntake
  \/ ClickSend
  \/ PressEnter
  \/ ClickReset
  \/ \E r \in pending, t \in ReplyTexts : RemoteSuccess(r, t)
  \/ \E r \in pending, e \in ProviderErrors : RemoteFailure(r, e)
  \/ \E e \in ConstructorErrors : CallThrew(e)
  \/ \E i \in 1..Len(messages) : readAloud(i)
  \/ SpeechEnds
  \/ \E c \in Coordinates : GeolocationResolved(c)
  \/ \E k \in CaptureKinds : startStream(k)
  \/ \E i \in 1..Len(acquiring) : UserMediaGranted(i)
  \/ \E i \in 1..Len(acquiring) : UserMediaDenied(i)
  \/ ClickCancel
  \/ startRecording
  \/ stopRecording
  \/ \E i \in 1..Len(recorders), size \in {0, 1} : RecorderStops(i, size)
  \/ \E i \in 1..Len(recorders) : RecordingEncoded(i)
  \/ SelectFile
  \/ \E m \in PhotoMimeTypes : PhotoEncoded(m)

Spec == Init /\ [][Next]_vars

\* The Session Controller driven through its handler directly, without the
\* gating of the view (disabled buttons, hidden forms).
NextController ==
  \/ Next
  \/ \E isFollowUp \in BOOLEAN : handleSubmit(isFollowUp)

SpecController == Init /\ [][NextController]_vars

\* Every remote call eventually resolves or rejects: the promise of a call in
\* flight settles, and the continuation of handleSubmit then runs.
RemoteSettles ==
  \E r \in pending :
    \/ \E t \in ReplyTexts : RemoteSuccess(r, t)
    \/ \E e \in ProviderErrors : RemoteFailure(r, e)

\* The microtask queue is drained: the caller of a call that threw resumes.
MicrotaskRuns == \E e \in ConstructorErrors : CallThrew(e)

SpecFair == Spec /\ WF_vars(RemoteSettles) /\ WF_vars(MicrotaskRuns)

\* ------------------------------------- specification of the formatter alone
\* analyzeHealthCondition is a function of the history it is given. This
\* specification calls it on every history of at most MaxHistory messages
\* built from the message shapes ChatMessage allows, including those the
\* Session Controller never builds (a pain level of 0, a first turn with
\* neither text nor attachments).
SamplePhoto ==
  [id |-> 0, type |-> "image", mimeType |-> "image/png", data |-> blobToBase64(<<0>>)]
SampleVoice ==
  [id |-> 1, type |-> "audio", mimeType |-> "audio/webm", data |-> blobToBase64(<<1>>)]

\* A text in which the user spells the formatter's pain annotation.
SPELLED_ANNOTATION == "[System Note: User indicates Pain Level: 5/10]"

\* ChatMessage.text is any string: the empty one, a plain one, and one that
\* spells the annotation.
FormatTexts == {"", "hi", SPELLED_ANNOTATION}
FormatAttachments == {<<>>, <<SampleVoice, SamplePhoto>>}
FormatPainLevels == {Null} \cup {Some(n) : n \in 0..10}

\* The user messages: every text with every attachment list and every pain
\* level, except that the text spelling the annotation, which the formatter
\* handles like any other non-empty text, comes without attachments.
FormatMessages ==
  {m \in [id : {0}, role : {"user"}, text : FormatTexts,
          attachments : FormatAttachments, painLevel : FormatPainLevels,
          timestamp : {0}] :
     m.text = SPELLED_ANNOTATION => m.attachments = <<>>}
  \cup
  {[id |-> 0, role |-> "model", text |-> "ok", attachments |-> <<>>,
    painLevel |-> Null, timestamp |-> 0]}

\* The caller extends the history by one message.
ExtendHistory(m) ==
  /\ pending = {}
  /\ Len(messages) < MaxHistory
  /\ messages' = Append(messages, m)
  /\ lastOp' = Op("extend", FALSE, TRUE, 0)
  /\ UNCHANGED <<inputText, attachments, painLevel, status, errorMessage, location,
                 speaking, netVars, recVars, platVars, now, obsVars, nEvents>>

\* The location hints a caller may pass: coordinates, or null / nothing.
LocationHints == {Null} \cup {Some(c) : c \in Coordinates}

\* analyzeHealthCondition(history, location) up to its await
analyzeHealthCondition(history, loc) ==
  /\ AnalysisCall(history, loc)
  /\ lastOp' = Op("analyze", FALSE, TRUE, IssuedRid)
  /\ UNCHANGED <<appVars, recVars, platVars, now, obsVars, nEvents>>

\* analyzeHealthCondition after its await: the call returns
AnalysisReturns(r) ==
  /\ r \in pending
  /\ pending' = pending \ {r}
  /\ lastOp' = Op("return", FALSE, TRUE, r.rid)
  /\ UNCHANGED <<appVars, nSent, thrown, clientBuilds, recVars, platVars, now,
                 obsVars, nEvents>>

\* analyzeHealthCondition's catch block for a call that threw before its
\* request: the call rejects with the generic error.
AnalysisRejects(constructorError) ==
  /\ thrown > 0
  /\ thrown' = thrown - 1
  /\ lastOp' = Op("reject", FALSE, TRUE, 0)
  /\ UNCHANGED <<appVars, pending, nSent, clientBuilds, recVars, platVars, now,
                 obsVars, nEvents>>

NextFormat ==
  \/ \E m \in FormatMessages : ExtendHistory(m)
  \/ \E loc \in LocationHints :
       nSent + thrown < MaxCalls /\ analyzeHealthCondition(messages, loc)
  \/ \E r \in pending : AnalysisReturns(r)
  \/ \E e \in ConstructorErrors : AnalysisRejects(e)

SpecFormat == Init /\ [][NextFormat]_vars

\* ===================================================================
\* Properties
\* ===================================================================

\* The request a step resolves, and the request a step issues.
Resolved == pending \ pending'
Issued == pending' \ pending

\* The edges of the session state machine, with the task that may take each.
StatusEdge(from, to, op) ==
  \/ from = "IDLE" /\ to = "ANALYZING" /\ op.op = "submit" /\ op.accepted
  \/ from = "ANALYZING" /\ to = "RESULT" /\ op.op = "success"
  \/ from = "ANALYZING" /\ to = "ERROR" /\ op.op = "failure"
  \/ from \in {"RESULT", "ERROR"} /\ to = "ANALYZING" /\ op.op = "submit" /\ op.accepted
  \/ to = "IDLE" /\ op.op = "reset"

\* C1: the status changes only along IDLE -> ANALYZING (accepted submit),
\* ANALYZING -> RESULT (success), ANALYZING -> ERROR (failure), RESULT/ERROR ->
\* ANALYZING (accepted follow-up submit) and any -> IDLE (reset); it is never
\* RECORDING.
C1_StatusEdgesOnly ==
  [][/\ status' # "RECORDING"
     /\ status' # status => StatusEdge(status, status', lastOp')]_vars

\* C2: a response to a request issued before the last reset changes neither
\* the history nor the status nor the error message.
C2_ResetDiscardsEarlierRequests ==
  [][\A r \in Resolved :
       r.epoch < nResets => UNCHANGED <<messages, status, errorMessage>>]_vars

\* C3: whenever the Recorder lets go of its stream (cancel, completion of a
\* recording, teardown of the component), every track of that stream is stopped.
C3_StreamReleasedOnEveryExit ==
  [][(stream # Null /\ stream' = Null) => tracks'[The(stream)] = "ended"]_vars

\* C4: no attachment is emitted through onCapture for a capture that the
\* Cancel button ended.
C4_CancelEmitsNothing ==
  [][\A i \in 1..Len(recorders) :
       (recorders[i].state = "encoding" /\ recorders'[i].state = "done")
         => recorders[i].stream \notin cancelled]_vars

\* C5: every stream getUserMedia granted is the Recorder's current stream or
\* has all its tracks stopped.
C5_SingleOwnedStream ==
  \A s \in 1..Len(tracks) : tracks[s] = "live" => stream = Some(s)

\* C6: when the remote call of a submit rejects, the status becomes ERROR, the
\* history still contains the user message of that submit and nothing is
\* appended to the history.
C6_FailureKeepsUserMessage ==
  [][lastOp'.op = "failure" =>
       \A r \in Resolved :
         /\ status' = "ERROR"
         /\ \E i \in 1..Len(messages') : messages'[i] = Last(r.history)
         /\ messages' = messages]_vars

\* C7: while the status is ANALYZING no request is issued and no user message
\* is appended, whatever the user does.
C7_NoSubmitWhileAnalyzing ==
  [][status = "ANALYZING" =>
       /\ nSent' = nSent
       /\ Issued = {}
       /\ Len(messages') > Len(messages) => Last(messages').role = "model"]_vars

C7_Witness ==
  /\ status = "ANALYZING"
  /\ Len(messages) >= 3
  /\ nEvents < MaxEvents

\* C8: handleSubmit(false) with empty text and no pending attachment, and
\* handleSubmit(true) with empty text, change nothing and issue no request.
C8_RejectedSubmitChangesNothing ==
  [][(/\ lastOp'.op = "submit"
      /\ \/ ~lastOp'.followUp /\ inputText = "" /\ attachments = <<>>
         \/ lastOp'.followUp /\ inputText = "")
       => UNCHANGED <<messages, status, attachments, painLevel, inputText,
                      errorMessage, pending, nSent>>]_vars

C8_Witness ==
  /\ lastOp = Op("submit", FALSE, FALSE, 0)
  /\ status = "ERROR"
  /\ painLevel # Null

\* C9: right after an accepted submit the new user message is the last element
\* of the history, the status is ANALYZING, the error message is cleared, the
\* input text is empty, the request is unresolved and, for a submit that is not
\* a follow-up, the pending attachment list is empty.
C9_AcceptedSubmitPostState ==
  [][nSent' # nSent =>
       /\ Len(messages') = Len(messages) + 1
       /\ Last(messages').role = "user"
       /\ Last(messages').text = inputText
       /\ status' = "ANALYZING"
       /\ errorMessage' = Null
       /\ inputText' = ""
       /\ \E r \in pending' : r.rid = nSent'
       /\ ~lastOp'.followUp => attachments' = <<>>]_vars

C9_Witness ==
  /\ lastOp.op = "submit" /\ lastOp.accepted /\ ~lastOp.followUp
  /\ Len(messages) = 1
  /\ Len(messages[1].attachments) > 0
  /\ status = "ANALYZING"
  /\ attachments = <<>>

\* C10: the history passed to analyzeHealthCondition is the history as it was
\* before the submit followed by the new user message.
C10_AnalyzedHistoryIsPriorPlusNew ==
  [][\A r \in Issued :
       /\ Len(r.history) = Len(messages) + 1
       /\ SubSeq(r.history, 1, Len(messages)) = messages
       /\ Last(r.history).role = "user"
       /\ Last(r.history).text = inputText
       /\ Last(r.history) = Last(messages')]_vars

C10_Witness ==
  \E r \in pending :
    /\ Len(r.history) >= 3
    /\ r.history[2].role = "model"
    /\ r.history = messages

IsPrefix(s, t) == Len(s) <= Len(t) /\ SubSeq(t, 1, Len(s)) = s

\* C11: between resets the history is append-only: every step that is not a
\* reset leaves the previous history a prefix of the new one, so no message is
\* removed, reordered or changed in any field.
C11_HistoryAppendOnly ==
  [][nResets' = nResets => IsPrefix(messages, messages')]_vars

C11_Witness ==
  /\ Len(messages) >= 3
  /\ messages[1].role = "user" /\ Len(messages[1].attachments) > 0
  /\ messages[2].role = "model"
  /\ messages[3].role = "user"
  /\ lastOp.op = "onCapture"

\* C12: only the first turn carries attachments or a pain level: a user message
\* created by a follow-up submit has no attachments and a null pain level, and
\* no message after the first of any reachable history has attachments or a
\* pain level.
C12_OnlyFirstTurnCarriesIntake ==
  [][/\ (nSent' # nSent /\ lastOp'.followUp) =>
          /\ Last(messages').attachments = <<>>
          /\ Last(messages').painLevel = Null
     /\ \A i \in 2..Len(messages') :
          /\ messages'[i].attachments = <<>>
          /\ messages'[i].painLevel = Null]_vars

C12_Witness ==
  /\ lastOp.op = "submit" /\ lastOp.accepted /\ lastOp.followUp
  /\ Len(messages) >= 3
  /\ messages[3].role = "user"
  /\ Len(messages[1].attachments) > 0
  /\ painLevel # Null

\* A step in which handleSubmit accepted a submit: it appended a user message.
AcceptedSubmitStep ==
  /\ Len(messages') = Len(messages) + 1
  /\ SubSeq(messages', 1, Len(messages)) = messages
  /\ Last(messages').role = "user"

\* C13 as stated: one remote request per accepted submit and no retry: the
\* number of requests sent grows by exactly one in a step that accepts a submit
\* and does not grow in any other step, in particular not when a request
\* fails, so after a failure nothing is sent until the user submits again.
C13_OneRequestPerAcceptedSubmit ==
  [][/\ AcceptedSubmitStep => (nSent' = nSent + 1 /\ Cardinality(Issued) = 1)
     /\ ~AcceptedSubmitStep => (nSent' = nSent /\ Issued = {})]_vars

\* C13 amended: at most one remote request per accepted submit and no retry.
\* When the Analysis Client's provider client can be constructed, a step that
\* accepts a submit sends exactly one request; when it cannot, the step sends
\* none, its call throws, and the caller's continuation puts the session into
\* ERROR with the generic failure.  No other step sends a request, in
\* particular not a failure, so after a failure nothing is sent until the user
\* submits again.
C13_OneRequestUnlessClientFails ==
  [][/\ AcceptedSubmitStep =>
          IF clientBuilds
          THEN nSent' = nSent + 1 /\ Cardinality(Issued) = 1 /\ thrown' = thrown
          ELSE nSent' = nSent /\ Issued = {} /\ thrown' = thrown + 1
     /\ ~AcceptedSubmitStep => (nSent' = nSent /\ Issued = {} /\ thrown' <= thrown)
     /\ thrown' < thrown =>
          (status' = "ERROR" /\ errorMessage' = Some(GENERIC_FAILURE))]_vars

C13_Witness ==
  /\ lastOp.op = "failure"
  /\ status = "ERROR"
  /\ nSent = 2
  /\ pending = {}

\* s contains sub as a substring.
Contains(s, sub) ==
  \E i \in 1..(Len(s) - Len(sub) + 1) : SubSeq(s, i, i + Len(sub) - 1) = sub

\* C14: every provider error is collapsed into one generic failure: whatever
\* the provider reports, the error analyzeHealthCondition throws carries the
\* same fixed message, and whenever a failed request puts the session into
\* ERROR the stored error message is that message, without provider detail.
C14_GenericFailureOnly ==
  [][/\ lastOp'.op = "failure" =>
          \A r \in Resolved :
             /\ status' = "ERROR"
             /\ errorMessage' = Some(GENERIC_FAILURE)
     /\ status' = "ERROR" =>
          /\ errorMessage' = Some(GENERIC_FAILURE)
          /\ \A e \in ProviderErrors : ~Contains(The(errorMessage'), e)]_vars

C14_Witness ==
  /\ lastOp.op = "failure"
  /\ status = "ERROR"
  /\ errorMessage = Some(GENERIC_FAILURE)
  /\ Len(messages) >= 3

\* C15: immediately after reset, whatever the state it was invoked in, the
\* history and the pending attachments are empty, the pain level is absent, the
\* input text is empty, the error is cleared, the status is IDLE and speech
\* playback is cancelled.
C15_ResetPostState ==
  [][nResets' # nResets =>
       /\ messages' = <<>>
       /\ attachments' = <<>>
       /\ painLevel' = Null
       /\ inputText' = ""
       /\ errorMessage' = Null
       /\ status' = "IDLE"
       /\ speaking' = FALSE]_vars

C15_Witness ==
  /\ lastOp.op = "reset"
  /\ nSent >= 2
  /\ pending # {}
  /\ messages = <<>>
  /\ status = "IDLE"
  /\ ~speaking

\* C16: a stopRecording on a recording in progress yields exactly one
\* attachment through onCapture, and the tracks of the recording's stream are
\* stopped only after that emission: they stay live while the recording waits
\* for its stop event and its encoding, and the step that emits the attachment
\* is the one that stops them. Recordings ended by Cancel are left aside.
C16_EmissionBeforeRelease ==
  [][\A i \in 1..Len(recorders) :
       (/\ recorders[i].stopRequested
        /\ recorders[i].state \in {"stopping", "encoding"}
        /\ recorders[i].stream \notin cancelled') =>
          IF recorders'[i].state = "done"
          THEN /\ Len(attachments') = Len(attachments) + 1
               /\ Last(attachments').type = recorders[i].mode
               /\ tracks[recorders[i].stream] = "live"
               /\ tracks'[recorders[i].stream] = "ended"
          ELSE tracks'[recorders[i].stream] = "live"]_vars

\* C17: the formatter only extends: the formatted form of a history followed
\* by one more message is the formatted form of that history followed by
\* exactly one turn, and that turn is the one the message gets on its own.
C17_FormatterOnlyExtends ==
  [][(Len(messages') = Len(messages) + 1 /\ IsPrefix(messages, messages')) =>
       /\ Len(FormatHistory(messages')) = Len(FormatHistory(messages)) + 1
       /\ IsPrefix(FormatHistory(messages), FormatHistory(messages'))
       /\ <<Last(FormatHistory(messages'))>> = FormatHistory(<<Last(messages')>>)]_vars

C17_Witness ==
  /\ Len(messages) = 2
  /\ messages[1].role = "user" /\ Len(messages[1].attachments) = 2
  /\ messages[1].painLevel = Some(0)
  /\ messages[2].role = "user" /\ messages[2].text = ""
  /\ \E r \in pending : r.history = messages /\ Len(r.contents) = 2

\* parts starts with one inline-data part per attachment, in their order, each
\* with the attachment's MIME type and payload.
InlinePartsMirror(msg, parts) ==
  /\ Len(parts) >= Len(msg.attachments)
  /\ \A k \in 1..Len(msg.attachments) :
       parts[k] = [inlineData |-> [mimeType |-> msg.attachments[k].mimeType,
                                   data |-> msg.attachments[k].data]]

IsTextPart(part) == DOMAIN part = {"text"}

\* C18 as stated: for every user message of a request the turn consists of one
\* inline-data part per attachment, in order, each with MIME type and payload,
\* followed by exactly one text part, whatever the text, the attachments and
\* the pain level are.
C18_InlinePartsThenOneTextPart ==
  \A r \in pending : \A i \in 1..Len(r.history) :
    r.history[i].role = "user" =>
      LET msg == r.history[i]
          parts == r.contents[i].parts
      IN /\ InlinePartsMirror(msg, parts)
         /\ Len(parts) = Len(msg.attachments) + 1
         /\ IsTextPart(Last(parts))

\* C18 amended: one inline-data part per attachment, in order, each with MIME
\* type and payload, followed by exactly one text part, except that no text
\* part follows when the text is empty, the pain level is absent and there is
\* at least one attachment.
C18_InlinePartsThenTextUnlessEmpty ==
  \A r \in pending : \A i \in 1..Len(r.history) :
    r.history[i].role = "user" =>
      LET msg == r.history[i]
          parts == r.contents[i].parts
      IN /\ r.contents[i].role = "user"
         /\ InlinePartsMirror(msg, parts)
         /\ IF msg.text = "" /\ msg.painLevel = Null /\ Len(msg.attachments) > 0
            THEN Len(parts) = Len(msg.attachments)
            ELSE /\ Len(parts) = Len(msg.attachments) + 1
                 /\ IsTextPart(Last(parts))
                 /\ Last(parts).text # ""

C18_Witness ==
  \E r \in pending :
    /\ Len(r.history) = 2
    /\ r.history[1].role = "user" /\ r.history[1].text = ""
    /\ r.history[1].painLevel = Null /\ Len(r.history[1].attachments) = 2
    /\ Len(r.contents[1].parts) = 2
    /\ r.history[2].role = "user" /\ r.history[2].text = "hi"
    /\ r.history[2].painLevel = Some(3) /\ Len(r.history[2].attachments) = 2
    /\ Len(r.contents[2].parts) = 3

ANNOTATION_HEAD == "[System Note: User indicates Pain Level: "

\* C19 as stated: a user message without a pain level yields no text part
\* containing the pain annotation; a user message with pain level N in 0..10,
\* 0 included, yields a text part that is the message's text with the
\* annotation for exactly N appended at its end.
C19_PainAnnotationIffPresent ==
  \A r \in pending : \A i \in 1..Len(r.history) :
    r.history[i].role = "user" =>
      LET msg == r.history[i]
          parts == r.contents[i].parts
      IN IF msg.painLevel = Null
         THEN \A k \in 1..Len(parts) :
                IsTextPart(parts[k]) => ~Contains(parts[k].text, ANNOTATION_HEAD)
         ELSE /\ The(msg.painLevel) \in 0..10
              /\ Len(parts) = Len(msg.attachments) + 1
              /\ IsTextPart(Last(parts))
              /\ Last(parts).text =
                   msg.text \o "\n\n" \o ANNOTATION_HEAD
                            \o ToString(The(msg.painLevel)) \o "/10]"

\* C19 amended: the formatter adds nothing to a user message without a pain
\* level: its text part, if it has one, is the message's text as it is (the
\* default prompt for an empty text), so it contains the pain annotation only
\* if the user's own text spells it; a user message with pain level N in
\* 0..10, 0 included, yields a text part that is the message's text with the
\* annotation for exactly N appended at its end.
C19_PainAnnotationAddedIffPresent ==
  \A r \in pending : \A i \in 1..Len(r.history) :
    r.history[i].role = "user" =>
      LET msg == r.history[i]
          parts == r.contents[i].parts
      IN IF msg.painLevel = Null
         THEN \A k \in 1..Len(parts) :
                IsTextPart(parts[k]) =>
                  /\ parts[k].text = IF msg.text = "" THEN DEFAULT_PROMPT ELSE msg.text
                  /\ Contains(parts[k].text, ANNOTATION_HEAD) =>
                       Contains(msg.text, ANNOTATION_HEAD)
         ELSE /\ The(msg.painLevel) \in 0..10
              /\ Len(parts) = Len(msg.attachments) + 1
              /\ IsTextPart(Last(parts))
              /\ Last(parts).text =
                   msg.text \o "\n\n" \o ANNOTATION_HEAD
                            \o ToString(The(msg.painLevel)) \o "/10]"

C19_Witness ==
  \E r \in pending :
    /\ Len(r.history) = 2
    /\ r.history[1].role = "user" /\ r.history[1].painLevel = Some(0)
    /\ r.history[1].text = "hi"
    /\ Last(r.contents[1].parts).text =
         "hi\n\n[System Note: User indicates Pain Level: 0/10]"
    /\ r.history[2].role = "user" /\ r.history[2].painLevel = Null
    /\ r.history[2].text = SPELLED_ANNOTATION
    /\ Last(r.contents[2].parts).text = r.history[2].text

\* C20 as stated: for every user message with empty text and no attachments,
\* whatever its pain level, the text of the turn is the default prompt.
C20_DefaultPromptWhateverPain ==
  \A r \in pending : \A i \in 1..Len(r.history) :
    (/\ r.history[i].role = "user"
     /\ r.history[i].text = ""
     /\ Len(r.history[i].attachments) = 0) =>
        r.contents[i].parts = <<[text |-> "Please analyze this."]>>

\* C20 amended: for every user message with empty text, no attachments and no
\* pain level the text of the turn is the default prompt; with a pain level
\* the text of the turn is the pain annotation alone.
C20_DefaultPromptWithoutPain ==
  \A r \in pending : \A i \in 1..Len(r.history) :
    (/\ r.history[i].role = "user"
     /\ r.history[i].text = ""
     /\ Len(r.history[i].attachments) = 0) =>
        r.contents[i].parts =
          IF r.history[i].painLevel = Null
          THEN <<[text |-> "Please analyze this."]>>
          ELSE <<[text |-> "\n\n" \o ANNOTATION_HEAD
                             \o ToString(The(r.history[i].painLevel)) \o "/10]"]>>

C20_Witness ==
  \E r \in pending :
    /\ Len(r.history) = 2
    /\ r.history[1] = [id |-> 0, role |-> "user", text |-> "", attachments |-> <<>>,
                       painLevel |-> Null, timestamp |-> 0]
    /\ r.contents[1].parts = <<[text |-> DEFAULT_PROMPT]>>
    /\ r.history[2] = [id |-> 0, role |-> "user", text |-> "", attachments |-> <<>>,
                       painLevel |-> Some(7), timestamp |-> 0]
    /\ Len(r.contents[2].parts) = 1

\* C21: the formatted request mirrors the history: one turn per message, in
\* the same order and with the same role; every turn has at least one part;
\* the turn of a model message has the stored reply text as its only part.
C21_RequestMirrorsHistory ==
  \A r \in pending :
    /\ Len(r.contents) = Len(r.history)
    /\ \A i \in 1..Len(r.history) :
         /\ r.contents[i].role = r.history[i].role
         /\ Len(r.contents[i].parts) >= 1
         /\ r.history[i].role = "model" =>
              r.contents[i].parts = <<[text |-> r.history[i].text]>>
         /\ r.history[i].role = "user" =>
              /\ InlinePartsMirror(r.history[i], r.contents[i].parts)
              /\ \A k \in (Len(r.history[i].attachments) + 1)..Len(r.contents[i].parts) :
                   IsTextPart(r.contents[i].parts[k])

C21_Witness ==
  \E r \in pending :
    /\ Len(r.history) = 2
    /\ r.history[1].role = "user" /\ r.history[1].text = ""
    /\ r.history[1].painLevel = Null /\ Len(r.history[1].attachments) = 2
    /\ r.contents[1].role = "user" /\ Len(r.contents[1].parts) = 2
    /\ r.history[2].role = "model"
    /\ r.contents[2] = [role |-> "model", parts |-> <<[text |-> "ok"]>>]

EndsWith(s, suffix) ==
  Len(s) >= Len(suffix) /\ SubSeq(s, Len(s) - Len(suffix) + 1, Len(s)) = suffix

\* A first submit with pain level p and k pending attachments was accepted in
\* this step: the history is its one message, with role user, pain level p and
\* the k attachments, and the last turn of the request sent has k inline-data
\* parts followed by one text part that ends in "Pain Level: p/10" and the
\* closing given.
FirstSubmitScenario(closing) ==
  (nSent' # nSent /\ ~lastOp'.followUp /\ painLevel # Null) =>
    LET p == The(painLevel)
        k == Len(attachments)
    IN /\ Len(messages') = 1
       /\ messages'[1].role = "user"
       /\ messages'[1].painLevel = Some(p)
       /\ messages'[1].attachments = attachments
       /\ Cardinality(Issued) = 1
       /\ \A r \in Issued :
            LET parts == Last(r.contents).parts
            IN /\ r.history = messages'
               /\ Len(parts) = k + 1
               /\ \A j \in 1..k : DOMAIN parts[j] = {"inlineData"}
               /\ IsTextPart(parts[k + 1])
               /\ EndsWith(parts[k + 1].text,
                           "Pain Level: " \o ToString(p) \o "/10" \o closing)

\* C22 as stated: a first submit with pain level p and k pending attachments
\* yields a history of exactly one message with role user, painLevel p and k
\* attachments, and the last turn of the request has k inline-data parts and
\* one text part that ends in "Pain Level: p/10".
C22_FirstSubmitEndsInPainLevel ==
  [][FirstSubmitScenario("")]_vars

\* C22 amended: the same, with a text part that ends in "Pain Level: p/10]",
\* the closing bracket of the annotation being its last character.
C22_FirstSubmitEndsInAnnotation ==
  [][FirstSubmitScenario("]")]_vars

C22_Witness ==
  /\ lastOp.op = "submit" /\ lastOp.accepted /\ ~lastOp.followUp
  /\ Len(messages) = 1
  /\ messages[1].painLevel = Some(7)
  /\ Len(messages[1].attachments) = 1
  /\ \E r \in pending :
       /\ r.history = messages
       /\ Len(Last(r.contents).parts) = 2
       /\ EndsWith(Last(r.contents).parts[2].text, "Pain Level: 7/10]")

\* What a call puts on the wire.
Sent(r) == [model |-> r.model, contents |-> r.contents, config |-> r.config]

\* C23: the request sent is determined by the history alone: calls with the
\* same history and different location hints send identical requests, each
\* with the fixed system instruction and temperature 0.4, so the location
\* never reaches the remote endpoint.
C23_LocationNeverSent ==
  \A r1 \in pending :
    /\ r1.config = [systemInstruction |-> SYSTEM_INSTRUCTION, temperatureTenths |-> 4]
    /\ \A r2 \in pending : r1.history = r2.history => Sent(r1) = Sent(r2)

C23_Witness ==
  \E r1 \in pending, r2 \in pending :
    /\ r1.location = Null /\ r2.location # Null
    /\ r1.history = r2.history
    /\ Len(r1.history) = 2
    /\ Len(r1.history[1].attachments) = 2
    /\ Sent(r1) = Sent(r2)

\* A step in which a getUserMedia call was rejected.
DeniedStep == lastOp'.op = "denied" /\ Len(acquiring') = Len(acquiring) - 1

\* C24: when stream acquisition fails the Capture Adapter's state is unchanged
\* (no mode, no stream, not recording), nothing is emitted through onCapture,
\* and the session's history, status, pending attachments and pain level are
\* unaffected.
C24_DenialLeavesAdapterIdle ==
  [][DeniedStep =>
       /\ UNCHANGED <<mode, stream, isRecording, mediaRecorderRef, chunksRef>>
       /\ mode' = Null /\ stream' = Null /\ ~isRecording'
       /\ UNCHANGED <<attachments, messages, status, painLevel>>]_vars

\* C25: provided every remote call settles, the session does not stay in
\* ANALYZING forever: whenever the status is ANALYZING it eventually is RESULT,
\* ERROR or IDLE; and a follow-up submit with non-empty text made in ERROR is
\* accepted and puts the session back into ANALYZING.
C25_AnalyzingEnds ==
  /\ (status = "ANALYZING") ~> (status \in {"RESULT", "ERROR", "IDLE"})
  /\ [][(/\ lastOp'.op = "submit" /\ lastOp'.followUp /\ nEvents' # nEvents
         /\ status = "ERROR" /\ inputText # "") =>
           /\ lastOp'.accepted
           /\ status' = "ANALYZING"
           /\ clientBuilds => nSent' = nSent + 1]_vars

C25_Witness ==
  /\ lastOp.op = "submit" /\ lastOp.followUp /\ lastOp.accepted
  /\ status = "ANALYZING"
  /\ nSent = 2
  /\ Len(messages) = 2
  /\ messages[1].role = "user" /\ messages[2].role = "user"
  /\ Cardinality(pending) = 1

\* C26: startRecording without an active stream changes nothing, and the
\* attachment emitted for a recording is built only from the chunks of that
\* recording: no chunk of another recording is in it, also when the recording
\* was started while the previous one's stop event or encoding was pending.
\* Recordings ended by Cancel are left aside.
C26_OwnChunksOnly ==
  [][/\ (lastOp'.op = "startRecording" /\ nEvents' # nEvents /\ stream = Null) =>
          UNCHANGED <<recVars, recorders, attachments>>
     /\ \A i \in 1..Len(recorders) :
          (/\ recorders[i].state = "encoding" /\ recorders'[i].state = "done"
           /\ recorders[i].stream \notin cancelled) =>
             /\ Last(attachments').data = blobToBase64(recorders[i].blob)
             /\ \A k \in 1..Len(recorders[i].blob) : recorders[i].blob[k] = i]_vars

\* C27: the status tracks the outstanding request: at most one analysis
\* request is unresolved, and the status is ANALYZING exactly when one is; also
\* when reset is invoked while a request is in flight and a submit follows
\* before that request resolves.  (An analysis request is unresolved from the
\* call of analyzeHealthCondition until its caller resumes, whether or not the
\* call got as far as the provider.)
C27_StatusTracksRequest ==
  /\ Cardinality(pending) + thrown <= 1
  /\ status = "ANALYZING" <=> Cardinality(pending) + thrown = 1

\* C28: every model message answers the user message directly before it: the
\* first message of the history is a user message, no two model messages are
\* adjacent, and a model message is appended directly behind the user message
\* whose request produced it.
C28_ModelAnswersPrecedingUser ==
  [][/\ Len(messages') > 0 => messages'[1].role = "user"
     /\ \A i \in 2..Len(messages') :
          messages'[i].role = "model" => messages'[i - 1].role = "user"
     /\ lastOp'.op = "success" =>
          \A r \in Resolved :
             /\ Len(messages') >= 2
             /\ messages'[Len(messages') - 1] = Last(r.history)]_vars

\* C29: no captured attachment is left unsent in the pending list: whenever
\* the history is not empty the pending attachment list is empty, also when an
\* encoding started before the first submit completes after it.
C29_NoAttachmentLeftPending ==
  Len(messages) > 0 => attachments = <<>>

\* C30: a follow-up whose text is empty or only whitespace is never appended to
\* the history and never sent, whether the send button or the Enter key
\* triggers it.
C30_BlankFollowUpNeverSent ==
  [][(/\ lastOp'.op = "submit" /\ lastOp'.followUp /\ nEvents' # nEvents
      /\ Trim(inputText) = "") =>
        /\ ~lastOp'.accepted
        /\ UNCHANGED <<messages, pending, nSent, status>>]_vars

====
